---- MODULE Spec2Model ----
\* Model of the multi-region generation client (src/src/gemini_client.py),
\* the tenacity retry wrapper around generate_content, and the two UI callers
\* that post-process its result (src/src/analysis_tab.py, src/app.py).
EXTENDS Integers, Sequences, FiniteSets, TLC

VARIABLES
    pc,                   \* position of the single caller thread
    GCP_PROJECT,          \* os.environ.get("GCP_PROJECT")
    ctor_arg,             \* the project_id argument __init__ was called with
    project_id,           \* self.project_id
    ctor_exc,             \* exception raised by __init__ ("" when none)
    app_logger,           \* TRUE when self.app_logger is not None
    tenacity_legacy,      \* which wait_exponential formula the installed tenacity uses
    location,             \* the SDK's process-global location set by vertexai.init
    kwargs,               \* caller's **kwargs (set of keyword names; generation_config only)
    response_mime_type,   \* caller's response_mime_type argument
    return_full_response, \* caller's return_full_response argument
    model_kwargs,         \* local copy of kwargs
    attempt_number,       \* tenacity retry_state.attempt_number
    idx,                  \* position of the for loop in self.regions
    gen_config,           \* local gen_config of the current region attempt
    last_error,           \* local last_error
    attempts,             \* outcomes of the region attempts of the current sweep
    binds,                \* regions bound by _initialize_region during the call
    invocations,          \* arguments of model.generate_content during the call
    sink_calls,           \* number of calls made on app_logger since construction / call start
    delays,               \* waits slept by the retry wrapper during the call
    sweep_exc,            \* exception raised at the end of the last failed sweep
    finish_reason_raw,    \* local of the successful attempt
    finish_reason_desc,   \* local of the successful attempt
    result,               \* value returned by generate_content
    caller_exc,           \* exception that reached the caller of generate_content
    ui_finish_reason,     \* finish_reason as extracted by the UI caller
    is_truncated,         \* is_truncated as computed by the UI caller
    norm_in,              \* inputs of the finish-reason normalisation harness
    norm_out,             \* outputs of the finish-reason normalisation harness
    self_regions,         \* self.regions (empty before construction)
    self_safety_settings, \* self.safety_settings (empty before construction)
    self_default_generation_config, \* self.default_generation_config
    sink,                 \* calls made on app_logger during the current sweep, in order
    conc_pc,              \* position of each of two concurrent callers
    conc_idx,             \* loop position of each concurrent caller
    conc_attempt,         \* retry attempt number of each concurrent caller
    conc_model,           \* location captured by the model object of each concurrent caller
    conc_invocations,     \* last invocation of each concurrent caller: for which region, where
    ss_keys,              \* keys present in st.session_state
    ss_results,           \* st.session_state.results: the app ids with a scraped dataset
    ss_history,           \* st.session_state.analysis_history: key -> entries in insertion order
    ss_client,            \* st.session_state.gemini_client: which instance (0 when absent)
    ss_log,               \* st.session_state.log
    instances,            \* GeminiRegionClient instances constructed in the session
    reruns,               \* script runs so far
    rerun_requested,      \* st.rerun() was called: the script runs again at once
    ui_event,             \* the button handled by the last script run
    ui_shown,             \* what the last script run showed for that button
    log_flat,             \* st.session_state.log as the logger's methods leave it
    log_categories,       \* st.session_state.log_categories
    log_ops,              \* calls made on the logger so far
    last_call,            \* the last call made on the logger and its arguments
    wrap_outcome,         \* what the caller of the last wrapped function got
    dino_pc,              \* dino.py: where the game loop is ("events", "update", "quit")
    score,                \* dino.py: obstacles that left the screen
    obstacles,            \* dino.py: the obstacle rectangles, oldest first
    DINO_Y,               \* dino.py: top of the dino, in tenths of a pixel
    is_jumping,           \* dino.py: the jump flag
    dino_y_velocity,      \* dino.py: vertical velocity, in tenths of a pixel per frame
    game_over,            \* dino.py: the game loop's game_over
    running,              \* dino.py: the game loop's running
    reset_ran             \* reset_game was called by the last event handling

\* the client, its caller, the retry wrapper and the harnesses
coreVars == <<pc, GCP_PROJECT, ctor_arg, project_id, ctor_exc, app_logger, tenacity_legacy, location, kwargs,
          response_mime_type, return_full_response, model_kwargs, attempt_number,
          idx, gen_config, last_error, attempts, binds, invocations, sink_calls,
          delays, sweep_exc, finish_reason_raw, finish_reason_desc, result,
          caller_exc, ui_finish_reason, is_truncated, norm_in, norm_out,
          self_regions, self_safety_settings, self_default_generation_config,
          sink, conc_pc, conc_idx, conc_attempt, conc_model,
          conc_invocations>>

\* the page's session state
uiVars == <<ss_keys, ss_results, ss_history, ss_client, ss_log, instances, reruns,
            rerun_requested, ui_event, ui_shown>>

\* the programs besides the client
\* the logger's lists
logVars == <<log_flat, log_categories, log_ops, last_call, wrap_outcome>>

\* the dino game's globals
dinoVars == <<dino_pc, score, obstacles, DINO_Y, is_jumping, dino_y_velocity,
              game_over, running, reset_ran>>

otherVars == <<uiVars, logVars, dinoVars>>

vars == <<coreVars, otherVars>>

\* the attributes __init__ gives the client besides project_id and app_logger
selfVars == <<self_regions, self_safety_settings, self_default_generation_config>>

\* state of the two concurrent callers
concVars == <<conc_pc, conc_idx, conc_attempt, conc_model, conc_invocations>>

----------------------------------------------------------------------------
\* Bounds

\* number of regions of self.regions that the model sweeps (a prefix of the list)
NumRegions == 3

----------------------------------------------------------------------------
\* Python values.  A str is a sequence of tokens, so that concatenation is \o,
\* containment is a contiguous sub-sequence and lower() acts token by token.

PyNone == [t |-> "none", s |-> << >>]

Str(toks) == [t |-> "str", s |-> toks]

Enum(name) == [t |-> "enum", s |-> <<name>>]

Truthy(v) == v.t \in {"enum", "dict"} \/ (v.t = "str" /\ v.s # << >>)

Contains(hay, needle) ==
    \E i \in 0..(Len(hay) - Len(needle)) :
        \A j \in 1..Len(needle) : hay[i + j] = needle[j]

LowerToken(w) ==
    CASE w = "The" -> "the"
      [] w = "Content" -> "content"
      [] w = "Potential" -> "potential"
      [] w = "Other" -> "other"
      [] w = "Sensitive" -> "sensitive"
      [] w = "Personal" -> "personal"
      [] w = "Identifiable" -> "identifiable"
      [] w = "Information" -> "information"
      [] w = "Invalid" -> "invalid"
      [] w = "None" -> "none"
      [] w = "STOP" -> "stop"
      [] w = "FinishReason." -> "finishreason."
      [] w = "FINISH_REASON_UNSPECIFIED" -> "finish_reason_unspecified"
      [] w = "MAX_TOKENS" -> "max_tokens"
      [] w = "SAFETY" -> "safety"
      [] w = "RECITATION" -> "recitation"
      [] w = "OTHER" -> "other"
      [] w = "BLOCKLIST" -> "blocklist"
      [] w = "PROHIBITED_CONTENT" -> "prohibited_content"
      [] w = "SPII" -> "spii"
      [] w = "MALFORMED_FUNCTION_CALL" -> "malformed_function_call"
      [] w = "COMPLETED" -> "completed"
      [] w = "NORMALLY" -> "normally"
      [] OTHER -> w

Lower(toks) == [i \in 1..Len(toks) |-> LowerToken(toks[i])]

\* str(x) with None rendered as the empty string
PyStr_NoneEmpty(v) ==
    CASE v.t = "str" -> v
      [] v.t = "none" -> Str(<< >>)
      [] v.t = "enum" -> Str(<<"FinishReason.">> \o v.s)
      [] OTHER -> Str(<<"<object>">>)

\* str(x)
PyStr(v) ==
    CASE v.t = "str" -> v
      [] v.t = "none" -> Str(<<"None">>)
      [] v.t = "enum" -> Str(<<"FinishReason.">> \o v.s)
      [] OTHER -> Str(<<"<object>">>)

----------------------------------------------------------------------------
\* GeminiRegionClient.__init__

AllRegions ==
    <<"us-east5", "northamerica-northeast1", "europe-west2", "europe-west3",
      "asia-northeast1", "asia-south1", "southamerica-east1", "australia-southeast1">>

\* self.regions, cut to the modelled prefix
regions == SubSeq(AllRegions, 1, NumRegions)

safety_settings ==
    [HARM_CATEGORY_HATE_SPEECH |-> "BLOCK_NONE",
     HARM_CATEGORY_DANGEROUS_CONTENT |-> "BLOCK_NONE",
     HARM_CATEGORY_SEXUALLY_EXPLICIT |-> "BLOCK_NONE",
     HARM_CATEGORY_HARASSMENT |-> "BLOCK_NONE"]

\* response_mime_type "" stands for "not set"
default_generation_config ==
    [max_output_tokens |-> 8192, temperature |-> "0.3", top_p |-> "0.95",
     response_mime_type |-> ""]

\* a generation_config a caller may pass in **kwargs
CallerGenerationConfig ==
    [max_output_tokens |-> 1024, temperature |-> "0.0", top_p |-> "0.95",
     response_mime_type |-> ""]

ProjectArgs == {PyNone, Str(<< >>), Str(<<"test-proj">>)}

EnvValues == {PyNone, Str(<<"env-proj">>)}

\* project_id or os.environ.get("GCP_PROJECT")
ResolveProjectId(arg, env) == IF Truthy(arg) THEN arg ELSE env

\* __init__ without the project id check
InitError_Never(pid) == ""

\* the exception __init__ raises for a resolved project id ("" when it does not raise)
InitError(pid) == IF ~Truthy(pid) THEN "ValueError" ELSE ""

----------------------------------------------------------------------------
\* Finish reasons

FinishReasonNames ==
    {"FINISH_REASON_UNSPECIFIED", "STOP", "MAX_TOKENS", "SAFETY", "RECITATION",
     "OTHER", "BLOCKLIST", "PROHIBITED_CONTENT", "SPII", "MALFORMED_FUNCTION_CALL"}

\* keys of reason_map
ReasonMapKeys ==
    {Enum(n) : n \in {"FINISH_REASON_UNSPECIFIED", "STOP", "MAX_TOKENS", "SAFETY",
                      "RECITATION", "OTHER"}}
    \cup {Str(<<d>>) : d \in {"0", "1", "2", "3", "4", "5", "6", "7", "8"}}

reason_map(k) ==
    CASE k = Enum("FINISH_REASON_UNSPECIFIED") -> Str(<<"The", "finish", "reason", "is", "unspecified">>)
      [] k = Enum("STOP") -> Str(<<"The", "model", "completed", "normally">>)
      [] k = Enum("MAX_TOKENS") -> Str(<<"The", "model", "reached", "the", "token", "limit">>)
      [] k = Enum("SAFETY") -> Str(<<"Content", "filtered", "for", "safety", "reasons">>)
      [] k = Enum("RECITATION") -> Str(<<"Potential", "recitation", "detected">>)
      [] k = Enum("OTHER") -> Str(<<"Other", "stopping", "reason">>)
      [] k = Str(<<"0">>) -> Str(<<"The", "finish", "reason", "is", "unspecified">>)
      [] k = Str(<<"1">>) -> Str(<<"The", "model", "reached", "the", "token", "limit">>)
      [] k = Str(<<"2">>) -> Str(<<"Content", "filtered", "for", "safety", "reasons">>)
      [] k = Str(<<"3">>) -> Str(<<"Potential", "recitation", "detected">>)
      [] k = Str(<<"4">>) -> Str(<<"Other", "stopping", "reason">>)
      [] k = Str(<<"5">>) -> Str(<<"Content", "contains", "blocked", "terms">>)
      [] k = Str(<<"6">>) -> Str(<<"Content", "contains", "prohibited", "material">>)
      [] k = Str(<<"7">>) -> Str(<<"Sensitive", "Personal", "Identifiable", "Information", "detected">>)
      [] k = Str(<<"8">>) -> Str(<<"Invalid", "function", "call", "format">>)

\* a lookup that answers "Unknown" for whatever the table does not hold
get_finish_reason_description_unknown(finish_reason) ==
    IF finish_reason \in ReasonMapKeys
    THEN reason_map(finish_reason)
    ELSE Str(<<"Unknown">>)

get_finish_reason_description(finish_reason) ==
    IF finish_reason.t = "str"
    THEN IF finish_reason \in ReasonMapKeys
         THEN reason_map(finish_reason)
         ELSE finish_reason
    ELSE IF finish_reason \in ReasonMapKeys
         THEN reason_map(finish_reason)
         ELSE PyStr(finish_reason)

----------------------------------------------------------------------------
\* The backend

\* finish codes a provider response carries: candidate.finish_reason is a
\* member of the SDK's FinishReason enum
DeliveredCodes == {Enum(n) : n \in FinishReasonNames}

Candidate(code) == [index |-> 0, finish_reason |-> code, finish_message |-> Str(<< >>)]

\* a response served by region r; its text names the region that produced it
Response(r, cands) ==
    [text |-> Str(<<"analysis", "from", r>>),
     usage_metadata |-> [prompt_token_count |-> 7, candidates_token_count |-> 5,
                         total_token_count |-> 12],
     candidates |-> cands]

\* the candidates lists a response may carry: none, or one candidate
CandidateLists == {<< >>} \cup {<<Candidate(c)>> : c \in DeliveredCodes}

NoExc == [type |-> "", msg |-> << >>]

\* the exception a failing backend invocation raises in region r
RegionError(type, r) ==
    [type |-> type,
     msg |-> IF type = "ResourceExhausted"
             THEN <<"429", "quota", "exceeded", "in", r>>
             ELSE <<"backend", "failure", "in", r>>]

extract_response_metadata(response) ==
    [token_count |-> [prompt |-> response.usage_metadata.prompt_token_count,
                      candidates |-> response.usage_metadata.candidates_token_count,
                      total |-> response.usage_metadata.total_token_count],
     candidates |-> [i \in 1..Len(response.candidates) |->
                        [index |-> response.candidates[i].index,
                         finish_reason |-> response.candidates[i].finish_reason,
                         finish_message |-> response.candidates[i].finish_message]]]

----------------------------------------------------------------------------
\* The retry decorator: wait_exponential(multiplier=1, min=2, max=10),
\* stop_after_attempt(3), retry on any exception, reraise left at its default

WaitMultiplier == 1

WaitMin == 2

WaitMax == 10

StopAttempts == 3

RECURSIVE Pow2(_)
Pow2(n) == IF n <= 0 THEN 1 ELSE 2 * Pow2(n - 1)

Max(a, b) == IF a >= b THEN a ELSE b

Min(a, b) == IF a <= b THEN a ELSE b

\* the wait after failed attempt n; tenacity before 8.0 raised 2 to the attempt
\* number, later versions to the attempt number minus one
wait_exponential(legacy, n) ==
    LET exp == IF legacy THEN Pow2(n) ELSE Pow2(n - 1)
        res == WaitMultiplier * exp
    IN  Max(Max(0, WaitMin), Min(res, WaitMax))

\* a retry budget of two attempts
stop_after_attempt_two(n) == n >= 2

stop_after_attempt(n) == n >= StopAttempts

\* raise Exception(f"All regions failed. Last error: {str(last_error)}") from last_error
AllRegionsFailedError(err) ==
    [type |-> "Exception",
     msg |-> <<"All", "regions", "failed.", "Last", "error:">> \o err.msg,
     cause |-> err]

\* what the retry wrapper raises once it stops: RetryError(last_attempt) from
\* the attempt's exception
RetryExhausted(exc) ==
    [type |-> "RetryError",
     msg |-> <<"RetryError[", "<Future", "state=finished", "raised", exc.type, ">]">>,
     cause |-> exc]

----------------------------------------------------------------------------
\* Dictionaries of keyword arguments

EmptyDict == [k \in {} |-> CallerGenerationConfig]

\* d.pop(key, default): the value
PopValue(d, key, default) == IF key \in DOMAIN d THEN d[key] ELSE default

\* d.pop(key, default): the dictionary left behind
PopRest(d, key) == [k \in (DOMAIN d) \ {key} |-> d[k]]

KwargsInputs == {EmptyDict, [generation_config |-> CallerGenerationConfig]}

\* "" stands for response_mime_type=None
MimeInputs == {"", "application/json"}

\* GenerationConfig(**gen_config.to_dict(), response_mime_type=response_mime_type)
LayerMimeType(cfg, mime) ==
    IF mime # "" THEN [cfg EXCEPT !.response_mime_type = mime] ELSE cfg

----------------------------------------------------------------------------
\* The UI callers of generate_content (render_analysis_tab, Version Comparison)

CompletedNormally == <<"completed", "normally">>

\* finish_reason as the caller extracts it from the returned value
CallerFinishReason(response) ==
    IF response.t = "dict" THEN response.finish_reason ELSE Str(<< >>)

\* response_metadata as the caller extracts it ("candidates" only)
CallerCandidates(response) ==
    IF response.t = "dict" THEN response.metadata.candidates ELSE << >>

\* is_truncated as the caller computes it
CallerIsTruncated(response) ==
    LET fr == CallerFinishReason(response)
        cands == CallerCandidates(response)
    IN  IF Truthy(fr)
        THEN ~Contains(Lower(fr.s), CompletedNormally)
        ELSE IF cands # << >>
             THEN cands[1].finish_reason # Str(<<"STOP">>)
             ELSE FALSE

----------------------------------------------------------------------------
\* State machine

NoResult == [t |-> "none", s |-> << >>]

NoConfig == [max_output_tokens |-> 0, temperature |-> "", top_p |-> "",
             response_mime_type |-> ""]

Callers == {1, 2}

NoInvocation == [region |-> "", location |-> ""]

\* the concurrent callers have not started
ConcIdle ==
    /\ conc_pc = [c \in Callers |-> "off"]
    /\ conc_idx = [c \in Callers |-> 0]
    /\ conc_attempt = [c \in Callers |-> 0]
    /\ conc_model = [c \in Callers |-> ""]
    /\ conc_invocations = [c \in Callers |-> NoInvocation]

NoHistory == [k \in {} |-> << >>]

NoEvent == [button |-> "", app |-> "", prompt |-> "", outcome |-> ""]

\* the page has not been opened
UIIdle ==
    /\ ss_keys = {}
    /\ ss_results = {}
    /\ ss_history = NoHistory
    /\ ss_client = 0
    /\ ss_log = << >>
    /\ instances = 0
    /\ reruns = 0
    /\ rerun_requested = FALSE
    /\ ui_event = NoEvent
    /\ ui_shown = ""

Categories == {"user_action", "api_call", "error", "performance"}

EmptyCategories == [c \in Categories |-> << >>]

NoDetails == [k \in {} |-> ""]

NoCall == [method |-> ""]

NoOutcome == [kind |-> "", value |-> ""]

\* the session has no log entries and the logger has not been called
LogIdle ==
    /\ log_flat = << >>
    /\ log_categories = EmptyCategories
    /\ log_ops = 0
    /\ last_call = NoCall
    /\ wrap_outcome = NoOutcome

\* y coordinates and velocities are kept in tenths of a pixel (GRAVITY = 0.8)
Tenths(pixels) == 10 * pixels

WIDTH == 1200

HEIGHT == 800

DINO_X == 100

DINO_WIDTH == 40

DINO_HEIGHT == 60

JUMP_HEIGHT == Tenths(15)

GRAVITY == 8

OBSTACLE_WIDTH == 30

OBSTACLE_SPEED == 8

\* the module-level assignments of dino.py, up to the start of the game loop
DinoStart ==
    /\ dino_pc = "events"
    /\ score = 0
    /\ obstacles = << >>
    /\ DINO_Y = Tenths(HEIGHT - 100)
    /\ is_jumping = FALSE
    /\ dino_y_velocity = 0
    /\ game_over = FALSE
    /\ running = TRUE
    /\ reset_ran = FALSE

Init ==
    /\ pc = "new"
    /\ GCP_PROJECT \in EnvValues
    /\ ctor_arg = PyNone
    /\ project_id = PyNone
    /\ ctor_exc = ""
    /\ app_logger = FALSE
    /\ tenacity_legacy \in BOOLEAN
    /\ location = ""
    /\ kwargs = EmptyDict
    /\ response_mime_type = ""
    /\ return_full_response = FALSE
    /\ model_kwargs = EmptyDict
    /\ attempt_number = 0
    /\ idx = 0
    /\ gen_config = NoConfig
    /\ last_error = NoExc
    /\ attempts = << >>
    /\ binds = << >>
    /\ invocations = << >>
    /\ sink_calls = 0
    /\ delays = << >>
    /\ sweep_exc = NoExc
    /\ finish_reason_raw = PyNone
    /\ finish_reason_desc = PyNone
    /\ result = NoResult
    /\ caller_exc = NoExc
    /\ ui_finish_reason = PyNone
    /\ is_truncated = FALSE
    /\ norm_in = << >>
    /\ norm_out = << >>
    /\ self_regions = << >>
    /\ self_safety_settings = EmptyDict
    /\ self_default_generation_config = NoConfig
    /\ sink = << >>
    /\ ConcIdle
    /\ UIIdle
    /\ LogIdle
    /\ DinoStart

\* the calls generate_content makes on app_logger
StartLog ==
    [method |-> "log_api_call", message |-> "gemini.generate_content", status |-> "",
     region |-> ""]

\* the two calls made for a successful region
SuccessLogs(r) ==
    <<[method |-> "log_api_call", message |-> "gemini.generate_content",
       status |-> "success", region |-> r],
      [method |-> "log_performance", message |-> "gemini_api_call", status |-> "",
       region |-> r]>>

\* a handler that reports every failed region as an error
FailureLog_AllErrors(type, r) ==
    [method |-> "log_error", message |-> "Gemini API error with region",
     status |-> "", region |-> r]

\* the call made for a failed region, by the class of its exception
FailureLog(type, r) ==
    IF type = "ResourceExhausted"
    THEN [method |-> "log_api_call", message |-> "gemini.generate_content",
          status |-> "exhausted", region |-> r]
    ELSE [method |-> "log_error", message |-> "Gemini API error with region",
          status |-> "", region |-> r]

\* the call made once the loop has run out of regions
AllFailedLog ==
    [method |-> "log_error", message |-> "All Gemini API regions failed", status |-> "",
     region |-> ""]

\* a sink that records the newest calls first
SinkAppend_Prepends(log, calls) == IF app_logger THEN calls \o log ELSE log

\* log extended by calls, when there is a sink
SinkAppend(log, calls) == IF app_logger THEN log \o calls ELSE log

\* one call on the logging sink, when there is one
Logged(n) == IF app_logger THEN sink_calls + n ELSE sink_calls

\* GeminiRegionClient(project_id=arg)
Construct(arg) ==
    /\ pc = "new"
    /\ ctor_arg' = arg
    /\ LET pid == ResolveProjectId(arg, GCP_PROJECT) IN
         /\ project_id' = pid
         /\ ctor_exc' = InitError(pid)
         /\ IF InitError(pid) # ""
            THEN /\ pc' = "ctor_raised"
                 /\ UNCHANGED <<app_logger, sink_calls, selfVars>>
            ELSE /\ pc' = "idle"
                 /\ self_regions' = regions
                 /\ self_safety_settings' = safety_settings
                 /\ self_default_generation_config' = default_generation_config
                 /\ \E imported \in BOOLEAN :
                      /\ app_logger' = imported
                      /\ sink_calls' = IF imported THEN sink_calls + 1 ELSE sink_calls
    /\ UNCHANGED sink
    /\ UNCHANGED <<concVars, otherVars>>
    /\ UNCHANGED <<GCP_PROJECT, tenacity_legacy, location, kwargs, response_mime_type,
                   return_full_response, model_kwargs, attempt_number, idx,
                   gen_config, last_error, attempts, binds, invocations, delays,
                   sweep_exc, finish_reason_raw, finish_reason_desc, result,
                   caller_exc, ui_finish_reason, is_truncated, norm_in, norm_out>>

\* the caller enters the retry wrapper of generate_content: first attempt
Call(kw, mime, full) ==
    /\ pc = "idle"
    /\ pc' = "start"
    /\ kwargs' = kw
    /\ response_mime_type' = mime
    /\ return_full_response' = full
    /\ attempt_number' = 1
    /\ model_kwargs' = EmptyDict
    /\ idx' = 0
    /\ gen_config' = NoConfig
    /\ last_error' = NoExc
    /\ attempts' = << >>
    /\ binds' = << >>
    /\ invocations' = << >>
    /\ sink_calls' = 0
    /\ delays' = << >>
    /\ sweep_exc' = NoExc
    /\ finish_reason_raw' = PyNone
    /\ finish_reason_desc' = PyNone
    /\ result' = NoResult
    /\ caller_exc' = NoExc
    /\ ui_finish_reason' = PyNone
    /\ is_truncated' = FALSE
    /\ sink' = << >>
    /\ UNCHANGED selfVars
    /\ UNCHANGED <<concVars, otherVars>>
    /\ UNCHANGED <<GCP_PROJECT, ctor_arg, project_id, ctor_exc, app_logger, tenacity_legacy, location,
                   norm_in, norm_out>>

\* a sweep that starts at the region the SDK was last bound to
BeginSweep_Sticky ==
    /\ pc = "start"
    /\ pc' = "bind"
    /\ last_error' = NoExc
    /\ sink_calls' = Logged(1)
    /\ model_kwargs' = kwargs
    /\ idx' = IF \E i \in 1..Len(self_regions) : self_regions[i] = location
              THEN CHOOSE i \in 1..Len(self_regions) : self_regions[i] = location
              ELSE 1
    /\ attempts' = << >>
    /\ sink' = SinkAppend(<< >>, <<StartLog>>)
    /\ UNCHANGED selfVars
    /\ UNCHANGED <<concVars, otherVars>>
    /\ UNCHANGED <<GCP_PROJECT, ctor_arg, project_id, ctor_exc, app_logger, tenacity_legacy, location,
                   kwargs, response_mime_type, return_full_response,
                   attempt_number, gen_config, binds, invocations, delays,
                   sweep_exc, finish_reason_raw, finish_reason_desc, result,
                   caller_exc, ui_finish_reason, is_truncated, norm_in, norm_out>>

\* body of generate_content up to the region loop
BeginSweep ==
    /\ pc = "start"
    /\ pc' = "bind"
    /\ last_error' = NoExc
    /\ sink_calls' = Logged(1)
    /\ model_kwargs' = kwargs
    /\ idx' = 1
    /\ attempts' = << >>
    /\ sink' = SinkAppend(<< >>, <<StartLog>>)
    /\ UNCHANGED selfVars
    /\ UNCHANGED <<concVars, otherVars>>
    /\ UNCHANGED <<GCP_PROJECT, ctor_arg, project_id, ctor_exc, app_logger, tenacity_legacy, location,
                   kwargs, response_mime_type, return_full_response,
                   attempt_number, gen_config, binds, invocations, delays,
                   sweep_exc, finish_reason_raw, finish_reason_desc, result,
                   caller_exc, ui_finish_reason, is_truncated, norm_in, norm_out>>

\* a loop head that works on the caller's mapping and on the client's default
\* options in place
BindRegion_InPlace ==
    /\ pc = "bind"
    /\ idx <= Len(self_regions)
    /\ pc' = "invoke"
    /\ location' = self_regions[idx]
    /\ binds' = Append(binds, self_regions[idx])
    /\ gen_config' = LayerMimeType(
                        PopValue(kwargs, "generation_config",
                                 self_default_generation_config),
                        response_mime_type)
    /\ kwargs' = PopRest(kwargs, "generation_config")
    /\ model_kwargs' = PopRest(kwargs, "generation_config")
    /\ self_default_generation_config' =
          LayerMimeType(self_default_generation_config, response_mime_type)
    /\ UNCHANGED <<self_regions, self_safety_settings, sink>>
    /\ UNCHANGED <<concVars, otherVars>>
    /\ UNCHANGED <<GCP_PROJECT, ctor_arg, project_id, ctor_exc, app_logger, tenacity_legacy,
                   response_mime_type, return_full_response, attempt_number, idx,
                   last_error, attempts, invocations, sink_calls, delays,
                   sweep_exc, finish_reason_raw, finish_reason_desc, result,
                   caller_exc, ui_finish_reason, is_truncated, norm_in, norm_out>>

\* head of one loop iteration: bind the region, take the model, build gen_config
BindRegion ==
    /\ pc = "bind"
    /\ idx <= Len(self_regions)
    /\ pc' = "invoke"
    /\ location' = self_regions[idx]
    /\ binds' = Append(binds, self_regions[idx])
    /\ gen_config' = LayerMimeType(
                        PopValue(model_kwargs, "generation_config",
                                 self_default_generation_config),
                        response_mime_type)
    /\ model_kwargs' = PopRest(model_kwargs, "generation_config")
    /\ UNCHANGED <<selfVars, sink>>
    /\ UNCHANGED <<concVars, otherVars>>
    /\ UNCHANGED <<GCP_PROJECT, ctor_arg, project_id, ctor_exc, app_logger, tenacity_legacy, kwargs,
                   response_mime_type, return_full_response, attempt_number, idx,
                   last_error, attempts, invocations, sink_calls, delays,
                   sweep_exc, finish_reason_raw, finish_reason_desc, result,
                   caller_exc, ui_finish_reason, is_truncated, norm_in, norm_out>>

\* the arguments model.generate_content is called with, and where it runs
Invocation ==
    [region |-> self_regions[idx], location |-> location, generation_config |-> gen_config,
     safety_settings |-> self_safety_settings, kwargs |-> model_kwargs]

\* a return statement with the two branches exchanged
ReturnValue_Swapped(full, response) ==
    LET md == extract_response_metadata(response)
        raw == IF md.candidates # << >> THEN md.candidates[1].finish_reason ELSE PyNone
    IN  IF full
        THEN response.text
        ELSE [t |-> "dict", text |-> response.text,
              finish_reason |-> get_finish_reason_description(raw),
              finish_reason_raw |-> raw, metadata |-> md]

\* the value generate_content returns for a response
ReturnValue(full, response) ==
    LET md == extract_response_metadata(response)
        raw == IF md.candidates # << >> THEN md.candidates[1].finish_reason ELSE PyNone
    IN  IF full
        THEN [t |-> "dict", text |-> response.text,
              finish_reason |-> get_finish_reason_description(raw),
              finish_reason_raw |-> raw, metadata |-> md]
        ELSE response.text

\* a success that does not return but goes on with the next region
InvokeSuccess_Continues(cands) ==
    /\ pc = "invoke"
    /\ pc' = "bind"
    /\ idx' = idx + 1
    /\ invocations' = Append(invocations, Invocation)
    /\ LET response == Response(self_regions[idx], cands)
           md == extract_response_metadata(response)
           raw == IF md.candidates # << >> THEN md.candidates[1].finish_reason ELSE PyNone
       IN  /\ attempts' = Append(attempts, [region |-> self_regions[idx], outcome |-> "ok",
                                            response |-> response])
           /\ finish_reason_raw' = raw
           /\ finish_reason_desc' = get_finish_reason_description(raw)
           /\ result' = ReturnValue(return_full_response, response)
    /\ sink_calls' = Logged(2)
    /\ sink' = SinkAppend(sink, SuccessLogs(self_regions[idx]))
    /\ UNCHANGED selfVars
    /\ UNCHANGED <<concVars, otherVars>>
    /\ UNCHANGED <<GCP_PROJECT, ctor_arg, project_id, ctor_exc, app_logger,
                   tenacity_legacy, location, kwargs, response_mime_type,
                   return_full_response, model_kwargs, attempt_number, gen_config,
                   last_error, binds, delays, sweep_exc, caller_exc,
                   ui_finish_reason, is_truncated, norm_in, norm_out>>

\* the backend returns a response: extract, log, return
InvokeSuccess(cands) ==
    /\ pc = "invoke"
    /\ pc' = "returned"
    /\ invocations' = Append(invocations, Invocation)
    /\ LET response == Response(self_regions[idx], cands)
           md == extract_response_metadata(response)
           raw == IF md.candidates # << >> THEN md.candidates[1].finish_reason ELSE PyNone
       IN  /\ attempts' = Append(attempts, [region |-> self_regions[idx], outcome |-> "ok",
                                            response |-> response])
           /\ finish_reason_raw' = raw
           /\ finish_reason_desc' = get_finish_reason_description(raw)
           /\ result' = ReturnValue(return_full_response, response)
    /\ sink_calls' = Logged(2)
    /\ sink' = SinkAppend(sink, SuccessLogs(self_regions[idx]))
    /\ UNCHANGED selfVars
    /\ UNCHANGED <<concVars, otherVars>>
    /\ UNCHANGED <<GCP_PROJECT, ctor_arg, project_id, ctor_exc, app_logger, tenacity_legacy, location,
                   kwargs, response_mime_type, return_full_response, model_kwargs,
                   attempt_number, idx, gen_config, last_error, binds, delays,
                   sweep_exc, caller_exc, ui_finish_reason, is_truncated,
                   norm_in, norm_out>>

\* a loop that steps over the region after a failed one
NextRegionIndex_Skip(i) == i + 2

\* for region in self.regions: the position after position i
NextRegionIndex(i) == i + 1

\* a failed attempt that keeps the first error of the sweep as last_error
RegionFailed_FirstError(type, next) ==
    /\ pc = "invoke"
    /\ pc' = "bind"
    /\ invocations' = Append(invocations, Invocation)
    /\ attempts' = Append(attempts, [region |-> self_regions[idx], outcome |-> type,
                                     response |-> Response(self_regions[idx], << >>)])
    /\ sink_calls' = Logged(1)
    /\ last_error' = IF last_error = NoExc
                     THEN RegionError(type, self_regions[idx])
                     ELSE last_error
    /\ idx' = next
    /\ sink' = SinkAppend(sink, <<FailureLog(type, self_regions[idx])>>)
    /\ UNCHANGED selfVars
    /\ UNCHANGED <<concVars, otherVars>>
    /\ UNCHANGED <<GCP_PROJECT, ctor_arg, project_id, ctor_exc, app_logger, tenacity_legacy, location,
                   kwargs, response_mime_type, return_full_response, model_kwargs,
                   attempt_number, gen_config, binds, delays, sweep_exc,
                   finish_reason_raw, finish_reason_desc, result, caller_exc,
                   ui_finish_reason, is_truncated, norm_in, norm_out>>

\* a failed attempt: log, remember the error and go on with the loop at position next
RegionFailed(type, next) ==
    /\ pc = "invoke"
    /\ pc' = "bind"
    /\ invocations' = Append(invocations, Invocation)
    /\ attempts' = Append(attempts, [region |-> self_regions[idx], outcome |-> type,
                                     response |-> Response(self_regions[idx], << >>)])
    /\ sink_calls' = Logged(1)
    /\ last_error' = RegionError(type, self_regions[idx])
    /\ idx' = next
    /\ sink' = SinkAppend(sink, <<FailureLog(type, self_regions[idx])>>)
    /\ UNCHANGED selfVars
    /\ UNCHANGED <<concVars, otherVars>>
    /\ UNCHANGED <<GCP_PROJECT, ctor_arg, project_id, ctor_exc, app_logger, tenacity_legacy, location,
                   kwargs, response_mime_type, return_full_response, model_kwargs,
                   attempt_number, gen_config, binds, delays, sweep_exc,
                   finish_reason_raw, finish_reason_desc, result, caller_exc,
                   ui_finish_reason, is_truncated, norm_in, norm_out>>

\* except ResourceExhausted
InvokeResourceExhausted == RegionFailed("ResourceExhausted", NextRegionIndex(idx))

\* a non-throttling error that ends the loop instead of being swallowed
InvokeException_Escapes == RegionFailed("Exception", Len(self_regions) + 1)

\* except Exception
InvokeException == RegionFailed("Exception", NextRegionIndex(idx))

\* a retry wrapper that hands a failed sweep's error to the caller even when
\* it goes on to retry
AllRegionsFailed_Poisoned ==
    /\ pc = "bind"
    /\ idx > Len(self_regions)
    /\ sink_calls' = Logged(1)
    /\ sweep_exc' = AllRegionsFailedError(last_error)
    /\ caller_exc' = RetryExhausted(AllRegionsFailedError(last_error))
    /\ IF stop_after_attempt(attempt_number)
       THEN /\ pc' = "raised"
            /\ UNCHANGED delays
       ELSE /\ pc' = "wait"
            /\ delays' = Append(delays, wait_exponential(tenacity_legacy, attempt_number))
    /\ sink' = SinkAppend(sink, <<AllFailedLog>>)
    /\ UNCHANGED selfVars
    /\ UNCHANGED <<concVars, otherVars>>
    /\ UNCHANGED <<GCP_PROJECT, ctor_arg, project_id, ctor_exc, app_logger, tenacity_legacy, location,
                   kwargs, response_mime_type, return_full_response, model_kwargs,
                   attempt_number, idx, gen_config, last_error, attempts, binds,
                   invocations, finish_reason_raw, finish_reason_desc, result,
                   ui_finish_reason, is_truncated, norm_in, norm_out>>

\* the loop ran out of regions: log, raise; the retry wrapper either schedules
\* a wait or gives up
AllRegionsFailed ==
    /\ pc = "bind"
    /\ idx > Len(self_regions)
    /\ sink_calls' = Logged(1)
    /\ sweep_exc' = AllRegionsFailedError(last_error)
    /\ IF stop_after_attempt(attempt_number)
       THEN /\ pc' = "raised"
            /\ caller_exc' = RetryExhausted(AllRegionsFailedError(last_error))
            /\ UNCHANGED delays
       ELSE /\ pc' = "wait"
            /\ delays' = Append(delays, wait_exponential(tenacity_legacy, attempt_number))
            /\ UNCHANGED caller_exc
    /\ sink' = SinkAppend(sink, <<AllFailedLog>>)
    /\ UNCHANGED selfVars
    /\ UNCHANGED <<concVars, otherVars>>
    /\ UNCHANGED <<GCP_PROJECT, ctor_arg, project_id, ctor_exc, app_logger, tenacity_legacy, location,
                   kwargs, response_mime_type, return_full_response, model_kwargs,
                   attempt_number, idx, gen_config, last_error, attempts, binds,
                   invocations, finish_reason_raw, finish_reason_desc, result,
                   ui_finish_reason, is_truncated, norm_in, norm_out>>

\* a retry wrapper that does not count the attempt it has just made
BackoffWait_SameAttempt ==
    /\ pc = "wait"
    /\ pc' = "start"
    /\ UNCHANGED attempt_number
    /\ UNCHANGED <<selfVars, sink>>
    /\ UNCHANGED <<concVars, otherVars>>
    /\ UNCHANGED <<GCP_PROJECT, ctor_arg, project_id, ctor_exc, app_logger, tenacity_legacy, location,
                   kwargs, response_mime_type, return_full_response, model_kwargs,
                   idx, gen_config, last_error, attempts, binds, invocations,
                   sink_calls, delays, sweep_exc, finish_reason_raw,
                   finish_reason_desc, result, caller_exc, ui_finish_reason,
                   is_truncated, norm_in, norm_out>>

\* the retry wrapper has slept and calls generate_content again
BackoffWait ==
    /\ pc = "wait"
    /\ pc' = "start"
    /\ attempt_number' = attempt_number + 1
    /\ UNCHANGED <<selfVars, sink>>
    /\ UNCHANGED <<concVars, otherVars>>
    /\ UNCHANGED <<GCP_PROJECT, ctor_arg, project_id, ctor_exc, app_logger, tenacity_legacy, location,
                   kwargs, response_mime_type, return_full_response, model_kwargs,
                   idx, gen_config, last_error, attempts, binds, invocations,
                   sink_calls, delays, sweep_exc, finish_reason_raw,
                   finish_reason_desc, result, caller_exc, ui_finish_reason,
                   is_truncated, norm_in, norm_out>>

\* the UI caller unpacks the returned value and computes is_truncated
CallerExtract ==
    /\ pc = "returned"
    /\ pc' = "shown"
    /\ ui_finish_reason' = CallerFinishReason(result)
    /\ is_truncated' = CallerIsTruncated(result)
    /\ UNCHANGED <<selfVars, sink>>
    /\ UNCHANGED <<concVars, otherVars>>
    /\ UNCHANGED <<GCP_PROJECT, ctor_arg, project_id, ctor_exc, app_logger, tenacity_legacy, location,
                   kwargs, response_mime_type, return_full_response, model_kwargs,
                   attempt_number, idx, gen_config, last_error, attempts, binds,
                   invocations, sink_calls, delays, sweep_exc, finish_reason_raw,
                   finish_reason_desc, result, caller_exc, norm_in, norm_out>>

\* the page is done with the call (result shown or error reported): the
\* call's locals are gone, the client and the SDK's global location stay
Rerun ==
    /\ pc \in {"shown", "raised"}
    /\ pc' = "idle"
    /\ kwargs' = EmptyDict
    /\ response_mime_type' = ""
    /\ return_full_response' = FALSE
    /\ attempt_number' = 0
    /\ model_kwargs' = EmptyDict
    /\ idx' = 0
    /\ gen_config' = NoConfig
    /\ last_error' = NoExc
    /\ attempts' = << >>
    /\ binds' = << >>
    /\ invocations' = << >>
    /\ sink_calls' = 0
    /\ delays' = << >>
    /\ sweep_exc' = NoExc
    /\ finish_reason_raw' = PyNone
    /\ finish_reason_desc' = PyNone
    /\ result' = NoResult
    /\ caller_exc' = NoExc
    /\ ui_finish_reason' = PyNone
    /\ is_truncated' = FALSE
    /\ sink' = << >>
    /\ UNCHANGED selfVars
    /\ UNCHANGED <<concVars, otherVars>>
    /\ UNCHANGED <<GCP_PROJECT, ctor_arg, project_id, ctor_exc, app_logger,
                   tenacity_legacy, location, norm_in, norm_out>>

Next ==
    \/ \E arg \in ProjectArgs : Construct(arg)
    \/ \E kw \in KwargsInputs, mime \in MimeInputs, full \in BOOLEAN : Call(kw, mime, full)
    \/ BeginSweep
    \/ BindRegion
    \/ \E cands \in CandidateLists : InvokeSuccess(cands)
    \/ InvokeResourceExhausted
    \/ InvokeException
    \/ AllRegionsFailed
    \/ BackoffWait
    \/ CallerExtract
    \/ Rerun

Spec == Init /\ [][Next]_vars

----------------------------------------------------------------------------
\* get_finish_reason_description applied to arbitrary codes, two at a time

FinishCodeInputs ==
    ReasonMapKeys
    \cup {Enum(n) : n \in FinishReasonNames}
    \cup {Str(<<"9">>), Str(<<"STOP">>), Str(<<"NEW_PROVIDER_CODE">>), Str(<< >>), PyNone}

InitNorm ==
    /\ pc = "norm"
    /\ GCP_PROJECT = PyNone
    /\ ctor_arg = PyNone
    /\ project_id = PyNone
    /\ ctor_exc = ""
    /\ app_logger = FALSE
    /\ tenacity_legacy = FALSE
    /\ location = ""
    /\ kwargs = EmptyDict
    /\ response_mime_type = ""
    /\ return_full_response = FALSE
    /\ model_kwargs = EmptyDict
    /\ attempt_number = 0
    /\ idx = 0
    /\ gen_config = NoConfig
    /\ last_error = NoExc
    /\ attempts = << >>
    /\ binds = << >>
    /\ invocations = << >>
    /\ sink_calls = 0
    /\ delays = << >>
    /\ sweep_exc = NoExc
    /\ finish_reason_raw = PyNone
    /\ finish_reason_desc = PyNone
    /\ result = NoResult
    /\ caller_exc = NoExc
    /\ ui_finish_reason = PyNone
    /\ is_truncated = FALSE
    /\ norm_in \in FinishCodeInputs \X FinishCodeInputs
    /\ norm_out = << >>
    /\ self_regions = << >>
    /\ self_safety_settings = EmptyDict
    /\ self_default_generation_config = NoConfig
    /\ sink = << >>
    /\ ConcIdle
    /\ UIIdle
    /\ LogIdle
    /\ DinoStart

Normalize ==
    /\ pc = "norm"
    /\ norm_out = << >>
    /\ norm_out' = <<get_finish_reason_description(norm_in[1]),
                     get_finish_reason_description(norm_in[2])>>
    /\ UNCHANGED <<pc, GCP_PROJECT, ctor_arg, project_id, ctor_exc, app_logger,
                   tenacity_legacy, location, kwargs, response_mime_type,
                   return_full_response, model_kwargs, attempt_number, idx,
                   gen_config, last_error, attempts, binds, invocations,
                   sink_calls, delays, sweep_exc, finish_reason_raw,
                   finish_reason_desc, result, caller_exc, ui_finish_reason,
                   is_truncated, norm_in, selfVars, sink>>
    /\ UNCHANGED <<concVars, otherVars>>

NextNorm == Normalize

SpecNorm == InitNorm /\ [][NextNorm]_vars

----------------------------------------------------------------------------
\* The same client with a logging sink whose call-start log may raise: the
\* exception leaves generate_content before the region loop and is handled by
\* the retry wrapper like any other.

\* what a log call raises when the session state lacks the log lists
SinkError ==
    [type |-> "AttributeError", msg |-> <<"st.session_state", "has", "no", "attribute">>]

\* self.app_logger.log_api_call(...) raises at the start of an attempt
BeginSweepRaises ==
    /\ pc = "start"
    /\ app_logger
    /\ last_error' = NoExc
    /\ attempts' = << >>
    /\ sink' = << >>
    /\ sweep_exc' = SinkError
    /\ IF stop_after_attempt(attempt_number)
       THEN /\ pc' = "raised"
            /\ caller_exc' = RetryExhausted(SinkError)
            /\ UNCHANGED delays
       ELSE /\ pc' = "wait"
            /\ delays' = Append(delays, wait_exponential(tenacity_legacy, attempt_number))
            /\ UNCHANGED caller_exc
    /\ UNCHANGED selfVars
    /\ UNCHANGED <<concVars, otherVars>>
    /\ UNCHANGED <<GCP_PROJECT, ctor_arg, project_id, ctor_exc, app_logger,
                   tenacity_legacy, location, kwargs, response_mime_type,
                   return_full_response, model_kwargs, attempt_number, idx,
                   gen_config, binds, invocations, sink_calls,
                   finish_reason_raw, finish_reason_desc, result,
                   ui_finish_reason, is_truncated, norm_in, norm_out>>

NextPre ==
    \/ Next
    \/ BeginSweepRaises

SpecPre == Init /\ [][NextPre]_vars

----------------------------------------------------------------------------
\* Two generate_content calls running concurrently on one constructed client.
\* vertexai.init sets a process-global location; the model object reads it
\* when it is created.

mainVars ==
    <<GCP_PROJECT, ctor_arg, project_id, ctor_exc, app_logger, tenacity_legacy,
      kwargs, response_mime_type, return_full_response, model_kwargs,
      attempt_number, idx, gen_config, last_error, attempts, binds, invocations,
      sink_calls, delays, sweep_exc, finish_reason_raw, finish_reason_desc,
      result, caller_exc, ui_finish_reason, is_truncated, norm_in, norm_out,
      selfVars, sink, otherVars>>

InitConc ==
    /\ pc = "conc"
    /\ GCP_PROJECT = Str(<<"env-proj">>)
    /\ ctor_arg = PyNone
    /\ project_id = ResolveProjectId(PyNone, Str(<<"env-proj">>))
    /\ ctor_exc = ""
    /\ app_logger = FALSE
    /\ tenacity_legacy = FALSE
    /\ location = ""
    /\ kwargs = EmptyDict
    /\ response_mime_type = ""
    /\ return_full_response = FALSE
    /\ model_kwargs = EmptyDict
    /\ attempt_number = 0
    /\ idx = 0
    /\ gen_config = NoConfig
    /\ last_error = NoExc
    /\ attempts = << >>
    /\ binds = << >>
    /\ invocations = << >>
    /\ sink_calls = 0
    /\ delays = << >>
    /\ sweep_exc = NoExc
    /\ finish_reason_raw = PyNone
    /\ finish_reason_desc = PyNone
    /\ result = NoResult
    /\ caller_exc = NoExc
    /\ ui_finish_reason = PyNone
    /\ is_truncated = FALSE
    /\ norm_in = << >>
    /\ norm_out = << >>
    /\ self_regions = regions
    /\ self_safety_settings = safety_settings
    /\ self_default_generation_config = default_generation_config
    /\ sink = << >>
    /\ conc_pc = [c \in Callers |-> "start"]
    /\ conc_idx = [c \in Callers |-> 0]
    /\ conc_attempt = [c \in Callers |-> 1]
    /\ conc_model = [c \in Callers |-> ""]
    /\ conc_invocations = [c \in Callers |-> NoInvocation]
    /\ UIIdle
    /\ LogIdle
    /\ DinoStart

\* caller c enters the region loop
ConcBeginSweep(c) ==
    /\ conc_pc[c] = "start"
    /\ conc_pc' = [conc_pc EXCEPT ![c] = "bind"]
    /\ conc_idx' = [conc_idx EXCEPT ![c] = 1]
    /\ UNCHANGED <<pc, location, conc_attempt, conc_model, conc_invocations>>
    /\ UNCHANGED mainVars

\* self._initialize_region(region): vertexai.init(project, location=region)
ConcInitializeRegion(c) ==
    /\ conc_pc[c] = "bind"
    /\ conc_idx[c] <= Len(self_regions)
    /\ location' = self_regions[conc_idx[c]]
    /\ conc_pc' = [conc_pc EXCEPT ![c] = "model"]
    /\ UNCHANGED <<pc, conc_idx, conc_attempt, conc_model, conc_invocations>>
    /\ UNCHANGED mainVars

\* model = self._get_model(): the model takes the location set at that moment
ConcGetModel(c) ==
    /\ conc_pc[c] = "model"
    /\ conc_model' = [conc_model EXCEPT ![c] = location]
    /\ conc_pc' = [conc_pc EXCEPT ![c] = "invoke"]
    /\ UNCHANGED <<pc, location, conc_idx, conc_attempt, conc_invocations>>
    /\ UNCHANGED mainVars

\* the invocation caller c makes for its current region
ConcInvocation(c) == [region |-> self_regions[conc_idx[c]], location |-> conc_model[c]]

\* model.generate_content returns: caller c returns
ConcInvokeSuccess(c) ==
    /\ conc_pc[c] = "invoke"
    /\ conc_invocations' = [conc_invocations EXCEPT ![c] = ConcInvocation(c)]
    /\ conc_model' = [conc_model EXCEPT ![c] = ""]
    /\ conc_pc' = [conc_pc EXCEPT ![c] = "returned"]
    /\ UNCHANGED <<pc, location, conc_idx, conc_attempt>>
    /\ UNCHANGED mainVars

\* model.generate_content raises: caller c goes on with its next region
ConcInvokeFailed(c) ==
    /\ conc_pc[c] = "invoke"
    /\ conc_invocations' = [conc_invocations EXCEPT ![c] = ConcInvocation(c)]
    /\ conc_model' = [conc_model EXCEPT ![c] = ""]
    /\ conc_idx' = [conc_idx EXCEPT ![c] = NextRegionIndex(conc_idx[c])]
    /\ conc_pc' = [conc_pc EXCEPT ![c] = "bind"]
    /\ UNCHANGED <<pc, location, conc_attempt>>
    /\ UNCHANGED mainVars

\* caller c ran out of regions: the retry wrapper waits and sweeps again, or gives up
ConcAllRegionsFailed(c) ==
    /\ conc_pc[c] = "bind"
    /\ conc_idx[c] > Len(self_regions)
    /\ IF stop_after_attempt(conc_attempt[c])
       THEN /\ conc_pc' = [conc_pc EXCEPT ![c] = "raised"]
            /\ UNCHANGED conc_attempt
       ELSE /\ conc_pc' = [conc_pc EXCEPT ![c] = "start"]
            /\ conc_attempt' = [conc_attempt EXCEPT ![c] = conc_attempt[c] + 1]
    /\ UNCHANGED <<pc, location, conc_idx, conc_model, conc_invocations>>
    /\ UNCHANGED mainVars

NextConc ==
    \E c \in Callers :
        \/ ConcBeginSweep(c)
        \/ ConcInitializeRegion(c)
        \/ ConcGetModel(c)
        \/ ConcInvokeSuccess(c)
        \/ ConcInvokeFailed(c)
        \/ ConcAllRegionsFailed(c)

SpecConc == InitConc /\ [][NextConc]_vars

----------------------------------------------------------------------------
\* The call under its scheduling: the thread that runs generate_content keeps
\* running, every backend invocation returns or raises, every sleep ends.

\* a step of the thread inside the retry wrapper
CallStep ==
    \/ BeginSweep
    \/ BindRegion
    \/ \E cands \in CandidateLists : InvokeSuccess(cands)
    \/ InvokeResourceExhausted
    \/ InvokeException
    \/ AllRegionsFailed
    \/ BackoffWait

SpecLive == Init /\ [][Next]_vars /\ WF_vars(CallStep)

----------------------------------------------------------------------------
\* The Streamlit page (src/app.py main, src/src/analysis_tab.py
\* render_analysis_tab): one action is one run of the script with at most one
\* button pressed.  generate_content is taken by its outcome.

\* script runs in the modelled session
MaxReruns == 4

\* app ids the user scrapes
Apps == {"com.one", "com.two"}

\* the numbers of the six Analysis sub-tabs, as formatted into keys
Prompts == {"1", "2", "3", "4", "5", "6"}

\* f"{app_id}_prompt_{i}"
AnalysisKey(app, i) == <<app, "_prompt_", i>>

\* f"{app_id}_prompt_6"
VersionKey(app) == <<app, "_prompt_", "6">>

SessionKeys ==
    {"log", "log_categories", "results", "sentiment_results", "analysis_history",
     "gemini_client"}

\* the keys Clear Session Data leaves in place
KeptKeys == {"log", "log_categories"}

LogLine(category, message) == [category |-> category, message |-> message]

\* what one generate_content call leaves in the log: a first-region success,
\* or three sweeps that fail on every region
ClientLogLines(outcome) ==
    IF outcome = "ok"
    THEN <<LogLine("api_call", "gemini.generate_content"),
           LogLine("api_call", "gemini.generate_content success"),
           LogLine("performance", "gemini_api_call")>>
    ELSE LET sweep == <<LogLine("api_call", "gemini.generate_content")>>
                      \o [j \in 1..NumRegions |->
                             LogLine("error", "Gemini API error with region")]
                      \o <<LogLine("error", "All Gemini API regions failed")>>
         IN  sweep \o sweep \o sweep

\* the client and retry wrapper are not in use
CoreIdle(p) ==
    /\ pc = p
    /\ GCP_PROJECT = Str(<<"env-proj">>)
    /\ ctor_arg = PyNone
    /\ project_id = PyNone
    /\ ctor_exc = ""
    /\ app_logger = FALSE
    /\ tenacity_legacy = FALSE
    /\ location = ""
    /\ kwargs = EmptyDict
    /\ response_mime_type = ""
    /\ return_full_response = FALSE
    /\ model_kwargs = EmptyDict
    /\ attempt_number = 0
    /\ idx = 0
    /\ gen_config = NoConfig
    /\ last_error = NoExc
    /\ attempts = << >>
    /\ binds = << >>
    /\ invocations = << >>
    /\ sink_calls = 0
    /\ delays = << >>
    /\ sweep_exc = NoExc
    /\ finish_reason_raw = PyNone
    /\ finish_reason_desc = PyNone
    /\ result = NoResult
    /\ caller_exc = NoExc
    /\ ui_finish_reason = PyNone
    /\ is_truncated = FALSE
    /\ norm_in = << >>
    /\ norm_out = << >>
    /\ self_regions = << >>
    /\ self_safety_settings = EmptyDict
    /\ self_default_generation_config = NoConfig
    /\ sink = << >>
    /\ ConcIdle

InitUI ==
    /\ CoreIdle("ui")
    /\ UIIdle
    /\ LogIdle
    /\ DinoStart

\* main() from its first line to the tabs: log lists, "Application started",
\* Clear Session Data when its button is pressed, then the session defaults
\* and the client
Prologue(clear) ==
    LET keys0 == ss_keys \cup KeptKeys
        log1 == Append(ss_log, LogLine("user_action", "Application started"))
        keys1 == IF clear THEN keys0 \cap KeptKeys ELSE keys0
        log2 == IF clear
                THEN Append(log1, LogLine("user_action", "Cleared session data"))
                ELSE log1
        fresh == "gemini_client" \notin keys1
    IN  [keys |-> SessionKeys,
         results |-> IF "results" \in keys1 THEN ss_results ELSE {},
         history |-> IF "analysis_history" \in keys1 THEN ss_history ELSE NoHistory,
         client |-> IF fresh THEN instances + 1 ELSE ss_client,
         instances |-> IF fresh THEN instances + 1 ELSE instances,
         log |-> IF fresh
                 THEN log2 \o <<LogLine("user_action", "Initialized Gemini client"),
                                LogLine("user_action", "Initialized Gemini client")>>
                 ELSE log2]

\* the entry logged when render_analysis_tab returns
AnalysisTabRendered == LogLine("performance", "render_analysis_tab")

\* a handler that makes room for the entry before it generates
SaveAnalysis_KeyFirst(history, key, entry, outcome) ==
    IF outcome = "ok"
    THEN IF key \in DOMAIN history
         THEN [history EXCEPT ![key] = Append(@, entry)]
         ELSE [k \in (DOMAIN history) \cup {key} |->
                  IF k = key THEN <<entry>> ELSE history[k]]
    ELSE [k \in (DOMAIN history) \cup {key} |->
             IF k \in DOMAIN history THEN history[k] ELSE << >>]

\* the history after a generation for key: the entry is stored only when
\* generate_content returned
SaveAnalysis(history, key, entry, outcome) ==
    IF outcome = "ok"
    THEN IF key \in DOMAIN history
         THEN [history EXCEPT ![key] = Append(@, entry)]
         ELSE [k \in (DOMAIN history) \cup {key} |->
                  IF k = key THEN <<entry>> ELSE history[k]]
    ELSE history

\* a Refresh that empties the history of every key
ClearHistoryKey_All(history, key) == [k \in DOMAIN history |-> << >>]

\* st.session_state.analysis_history[analysis_key] = {}
ClearHistoryKey(history, key) == [history EXCEPT ![key] = << >>]

\* one run of the script: the session state it leaves, the button it handled
\* and what it put on the page
PageRun(s, results, history, log, event, shown, again) ==
    /\ pc = "ui"
    /\ reruns < MaxReruns
    /\ reruns' = reruns + 1
    /\ ss_keys' = s.keys
    /\ ss_client' = s.client
    /\ instances' = s.instances
    /\ ss_results' = results
    /\ ss_history' = history
    /\ ss_log' = log
    /\ ui_event' = event
    /\ ui_shown' = shown
    /\ rerun_requested' = again
    /\ UNCHANGED <<coreVars, logVars, dinoVars>>

\* a run with no button pressed (the first load, a widget change, st.rerun())
PlainRun ==
    /\ pc = "ui"
    /\ LET s == Prologue(FALSE) IN
       PageRun(s, s.results, s.history, Append(s.log, AnalysisTabRendered),
               NoEvent, "", FALSE)

\* "Clear Session Data"
ClearSessionData ==
    /\ ~rerun_requested
    /\ LET s == Prologue(TRUE) IN
       PageRun(s, s.results, s.history, Append(s.log, AnalysisTabRendered),
               [NoEvent EXCEPT !.button = "clear_session"], "Session data cleared!", FALSE)

\* "Scrape Reviews" with an app id entered
ScrapeReviews(app) ==
    /\ ~rerun_requested
    /\ LET s == Prologue(FALSE) IN
       PageRun(s, s.results \cup {app}, s.history,
               s.log \o <<LogLine("user_action", "Started scraping reviews"),
                          LogLine("api_call", "google_play_scraper.reviews"),
                          LogLine("api_call", "google_play_scraper.reviews success"),
                          LogLine("performance", "scrape_reviews"),
                          LogLine("user_action", "Successfully scraped"),
                          AnalysisTabRendered>>,
               [NoEvent EXCEPT !.button = "scrape", !.app = app], "dataframe", FALSE)

\* "Remove Dataset" of app: the script stops at st.rerun()
RemoveDataset(app) ==
    /\ ~rerun_requested
    /\ app \in ss_results
    /\ LET s == Prologue(FALSE) IN
       PageRun(s, s.results \ {app}, s.history,
               Append(s.log, LogLine("user_action", "Removed dataset")),
               [NoEvent EXCEPT !.button = "remove", !.app = app], "", TRUE)

\* "Refresh" in sub-tab i for app
RefreshHistory(app, i) ==
    /\ ~rerun_requested
    /\ app \in ss_results
    /\ AnalysisKey(app, i) \in DOMAIN ss_history
    /\ LET s == Prologue(FALSE) IN
       PageRun(s, s.results, ClearHistoryKey(s.history, AnalysisKey(app, i)),
               s.log \o <<LogLine("user_action", "Refreshed analysis history"),
                          AnalysisTabRendered>>,
               [NoEvent EXCEPT !.button = "refresh", !.app = app, !.prompt = i],
               "History cleared!", FALSE)

\* the analysis button of sub-tab i for app; outcome is what generate_content did
Analyze(app, i, outcome) ==
    /\ ~rerun_requested
    /\ app \in ss_results
    /\ LET s == Prologue(FALSE)
           entry == [written_by |-> "analysis", prompt |-> i, app |-> app,
                     timestamp |-> reruns + 1]
       IN  PageRun(s, s.results,
                   SaveAnalysis(s.history, AnalysisKey(app, i), entry, outcome),
                   s.log \o <<LogLine("user_action", "Started analysis"),
                              LogLine("api_call", "gemini_client.generate_content")>>
                         \o ClientLogLines(outcome)
                         \o (IF outcome = "ok"
                             THEN <<LogLine("api_call", "gemini_client.generate_content success"),
                                    LogLine("user_action", "Completed analysis")>>
                             ELSE <<LogLine("error", "Error during analysis")>>)
                         \o <<AnalysisTabRendered>>,
                   [button |-> "analyze", app |-> app, prompt |-> i, outcome |-> outcome],
                   IF outcome = "ok" THEN "analysis" ELSE "error", FALSE)

\* "Analyze Versions" for app in the Version Comparison tab
AnalyzeVersions(app, outcome) ==
    /\ ~rerun_requested
    /\ app \in ss_results
    /\ LET s == Prologue(FALSE)
           entry == [written_by |-> "version", prompt |-> "6", app |-> app,
                     timestamp |-> reruns + 1]
       IN  PageRun(s, s.results,
                   SaveAnalysis(s.history, VersionKey(app), entry, outcome),
                   s.log \o <<AnalysisTabRendered,
                              LogLine("user_action", "Started version analysis"),
                              LogLine("api_call", "gemini_client.generate_content")>>
                         \o ClientLogLines(outcome)
                         \o (IF outcome = "ok"
                             THEN <<LogLine("api_call", "gemini_client.generate_content success"),
                                    LogLine("user_action", "Completed version analysis")>>
                             ELSE <<LogLine("error", "Error during analysis")>>),
                   [button |-> "analyze_versions", app |-> app, prompt |-> "6",
                    outcome |-> outcome],
                   IF outcome = "ok" THEN "analysis" ELSE "error", FALSE)

GenerationOutcomes == {"ok", "raised"}

NextUI ==
    \/ PlainRun
    \/ ClearSessionData
    \/ \E app \in Apps : ScrapeReviews(app)
    \/ \E app \in Apps : RemoveDataset(app)
    \/ \E app \in Apps, i \in Prompts : RefreshHistory(app, i)
    \/ \E app \in Apps, i \in Prompts, outcome \in GenerationOutcomes :
          Analyze(app, i, outcome)
    \/ \E app \in Apps, outcome \in GenerationOutcomes : AnalyzeVersions(app, outcome)

SpecUI == InitUI /\ [][NextUI]_vars

----------------------------------------------------------------------------
\* The application logger (src/src/logger.py): AppLogger's log methods on the
\* session's flat log and category lists, and the performance_logger wrapper.

\* calls made on the logger in the modelled run
MaxLogOps == 3

SensitiveWords == {"key", "token", "secret", "password"}

\* k.lower(), piece by piece
LowerPiece(w) ==
    CASE w = "API" -> "api"
      [] w = "KEY" -> "key"
      [] w = "Password" -> "password"
      [] w = "Secret" -> "secret"
      [] w = "Token" -> "token"
      [] OTHER -> w

LowerName(name) == [i \in 1..Len(name) |-> LowerPiece(name[i])]

\* parameter names, cut into pieces so that a word inside a name is a piece
ParamNames ==
    {<<"prompt_length">>, <<"model">>, <<"api_", "key">>, <<"API_", "KEY">>,
     <<"max_output_", "token", "s">>, <<"Password">>, <<"client_", "Secret">>,
     <<"auth", "Token">>}

NoParams == [n \in {} |-> ""]

\* every parameter has a value of its own
ParamsOf(names) == [n \in names |-> <<"value of", n>>]

\* the params dictionaries passed to log_api_call
ParamInputs ==
    {NoParams,
     ParamsOf({<<"prompt_length">>}),
     ParamsOf({<<"api_", "key">>, <<"model">>}),
     ParamsOf({<<"API_", "KEY">>, <<"prompt_length">>}),
     ParamsOf({<<"max_output_", "token", "s">>, <<"model">>}),
     ParamsOf({<<"Password">>, <<"client_", "Secret">>, <<"auth", "Token">>})}

\* a filter that compares the names as they are written
SafeParams_CaseSensitive(params) ==
    [k \in {n \in DOMAIN params :
               ~\E w \in SensitiveWords : Contains(n, <<w>>)} |-> params[k]]

\* {k: v for k, v in params.items() if not any(s in k.lower() for s in [...])}
SafeParams(params) ==
    [k \in {n \in DOMAIN params :
               ~\E w \in SensitiveWords : Contains(LowerName(n), <<w>>)} |-> params[k]]

InitLog ==
    /\ CoreIdle("log")
    /\ UIIdle
    /\ LogIdle
    /\ DinoStart

\* _format_log_entry without the timestamp and the session id
FormatLogEntry(message, category, details) ==
    IF DOMAIN details # {}
    THEN [category |-> category, message |-> message, details |-> details]
    ELSE [category |-> category, message |-> message]

\* an append to the category list only
Stored_CategoryOnly(logs, line, entry) ==
    [flat |-> logs.flat,
     cats |-> [logs.cats EXCEPT ![entry.category] = Append(@, entry)]]

\* the two appends every log method makes
Stored(logs, line, entry) ==
    [flat |-> Append(logs.flat, line),
     cats |-> [logs.cats EXCEPT ![entry.category] = Append(@, entry)]]

FlatLine(prefix, message) == [prefix |-> prefix, message |-> message]

log_user_action(logs, action, details) ==
    Stored(logs, FlatLine("", action), FormatLogEntry(action, "user_action", details))

\* "" stands for response_status=None, 0 for duration_ms=None or 0
log_api_call(logs, api_name, params, response_status, duration_ms) ==
    LET details == ("api_name" :> api_name)
                   @@ (IF DOMAIN params # {} THEN "params" :> SafeParams(params)
                       ELSE NoDetails)
                   @@ (IF response_status # "" THEN "status" :> response_status
                       ELSE NoDetails)
                   @@ (IF duration_ms # 0 THEN "duration_ms" :> duration_ms
                       ELSE NoDetails)
    IN  Stored(logs, FlatLine("API Call to", api_name),
               FormatLogEntry(<<"API Call:", api_name>>, "api_call", details))

\* "" stands for exception=None
log_error(logs, error_message, exception, context) ==
    LET details == (IF exception # "" THEN "exception_type" :> exception
                    ELSE NoDetails)
                   @@ (IF DOMAIN context # {} THEN "context" :> context
                       ELSE NoDetails)
    IN  Stored(logs, FlatLine("ERROR -", error_message),
               FormatLogEntry(error_message, "error", details))

log_performance(logs, operation, duration_ms, details) ==
    Stored(logs, FlatLine("PERF -", operation),
           FormatLogEntry(<<"Performance:", operation>>, "performance",
                          details @@ ("duration_ms" :> duration_ms)))

\* the exception classes that derive from Exception
Exceptions == {"ValueError"}

\* what a wrapped function does when it is called
FuncBehaviours ==
    {[kind |-> "returns", value |-> "tab rendered"],
     [kind |-> "returns", value |-> "None"],
     [kind |-> "raises", value |-> "ValueError"],
     [kind |-> "raises", value |-> "KeyboardInterrupt"]}

\* a wrapper that logs the exception and does not raise it again
performance_logger_Swallows(logs, operation_name, behaviour, duration_ms) ==
    IF behaviour.kind = "returns"
    THEN [logs |-> log_performance(logs, operation_name, duration_ms, NoDetails),
          outcome |-> behaviour]
    ELSE IF behaviour.value \in Exceptions
    THEN [logs |-> log_error(
                      log_performance(logs, operation_name, duration_ms,
                                      "error" :> TRUE),
                      <<"Error in", operation_name>>, behaviour.value, NoDetails),
          outcome |-> [kind |-> "returns", value |-> "None"]]
    ELSE [logs |-> logs, outcome |-> behaviour]

\* the wrapper around a function with the given behaviour: what is logged and
\* what the caller gets; "except Exception" lets other exceptions pass
performance_logger(logs, operation_name, behaviour, duration_ms) ==
    IF behaviour.kind = "returns"
    THEN [logs |-> log_performance(logs, operation_name, duration_ms, NoDetails),
          outcome |-> behaviour]
    ELSE IF behaviour.value \in Exceptions
    THEN [logs |-> log_error(
                      log_performance(logs, operation_name, duration_ms,
                                      "error" :> TRUE),
                      <<"Error in", operation_name>>, behaviour.value, NoDetails),
          outcome |-> behaviour]
    ELSE [logs |-> logs, outcome |-> behaviour]

Logs == [flat |-> log_flat, cats |-> log_categories]

\* one call on the logger: the session's logs after it and what was called
LoggerCall(logs, call, outcome) ==
    /\ pc = "log"
    /\ log_ops < MaxLogOps
    /\ log_ops' = log_ops + 1
    /\ log_flat' = logs.flat
    /\ log_categories' = logs.cats
    /\ last_call' = call
    /\ wrap_outcome' = outcome
    /\ UNCHANGED <<coreVars, uiVars, dinoVars>>

UserActions == {"Application started"}

DetailInputs == {NoDetails, "session_id" :> "abcd1234"}

LogUserAction(action, details) ==
    /\ pc = "log"
    /\ LoggerCall(log_user_action(Logs, action, details),
                  [method |-> "log_user_action"], NoOutcome)

Durations == {0, 12}

\* response_status and duration_ms as the callers pass them: neither at the
\* start of a call, both after a response
ResponseInputs ==
    {[status |-> "", duration_ms |-> 0], [status |-> "success", duration_ms |-> 12]}

LogApiCall(params, response_status, duration_ms) ==
    /\ pc = "log"
    /\ LoggerCall(log_api_call(Logs, "gemini.generate_content", params,
                               response_status, duration_ms),
                  [method |-> "log_api_call", params |-> params], NoOutcome)

\* exception and context as the callers pass them
ErrorInputs ==
    {[exception |-> "", context |-> NoDetails],
     [exception |-> "ValueError", context |-> "prompt_length" :> 42]}

LogError(exception, context) ==
    /\ pc = "log"
    /\ LoggerCall(log_error(Logs, "Error during analysis", exception, context),
                  [method |-> "log_error"], NoOutcome)

PerformanceInputs ==
    {[duration_ms |-> 12, details |-> NoDetails],
     [duration_ms |-> 0, details |-> "region" :> "us-east5"]}

LogPerformance(duration_ms, details) ==
    /\ pc = "log"
    /\ LoggerCall(log_performance(Logs, "gemini_api_call", duration_ms, details),
                  [method |-> "log_performance"], NoOutcome)

\* clear_logs()
ClearLogs ==
    /\ pc = "log"
    /\ LoggerCall([flat |-> << >>, cats |-> EmptyCategories],
                  [method |-> "clear_logs", dropped |-> Len(log_flat)], NoOutcome)

\* a call of a function decorated with performance_logger
WrappedCall(behaviour, duration_ms) ==
    /\ pc = "log"
    /\ LET w == performance_logger(Logs, "render_analysis_tab", behaviour,
                                   duration_ms) IN
       LoggerCall(w.logs, [method |-> "wrapped", behaviour |-> behaviour],
                  w.outcome)

NextLog ==
    \/ \E action \in UserActions, details \in DetailInputs :
          LogUserAction(action, details)
    \/ \E params \in ParamInputs, r \in ResponseInputs :
          LogApiCall(params, r.status, r.duration_ms)
    \/ \E e \in ErrorInputs : LogError(e.exception, e.context)
    \/ \E p \in PerformanceInputs : LogPerformance(p.duration_ms, p.details)
    \/ ClearLogs
    \/ \E behaviour \in FuncBehaviours, d \in Durations : WrappedCall(behaviour, d)

SpecLog == InitLog /\ [][NextLog]_vars

----------------------------------------------------------------------------
\* The dino game (src/dino.py): one pass of the game loop is the handling of
\* the pending event followed by the update of the frame.

\* obstacles that may leave the screen in the modelled run
MaxScore == 1

\* random.randint(OBSTACLE_MIN_HEIGHT, OBSTACLE_MAX_HEIGHT): the two ends
ObstacleHeights == {40, 150}

\* what pygame.event.get() holds at a frame: nothing or one event
DinoEvents == {"none", "QUIT", "SPACE", "R"}

InitDino ==
    /\ CoreIdle("dino")
    /\ UIIdle
    /\ LogIdle
    /\ DinoStart

\* the globals as reset_game leaves them
reset_game ==
    /\ score' = 0
    /\ obstacles' = << >>
    /\ DINO_Y' = Tenths(HEIGHT - DINO_HEIGHT)
    /\ is_jumping' = FALSE
    /\ dino_y_velocity' = 0

\* the for loop over pygame.event.get()
HandleEvent(event) ==
    /\ pc = "dino"
    /\ dino_pc = "events"
    /\ score < MaxScore
    /\ dino_pc' = "update"
    /\ running' = IF event = "QUIT" THEN FALSE ELSE running
    /\ IF event = "R" /\ game_over
       THEN /\ game_over' = FALSE
            /\ reset_game
            /\ reset_ran' = TRUE
       ELSE /\ IF event = "SPACE" /\ ~is_jumping
               THEN is_jumping' = TRUE /\ dino_y_velocity' = -JUMP_HEIGHT
               ELSE UNCHANGED <<is_jumping, dino_y_velocity>>
            /\ reset_ran' = FALSE
            /\ UNCHANGED <<score, obstacles, DINO_Y, game_over>>
    /\ UNCHANGED <<coreVars, uiVars, logVars>>

\* the dino after the jump step of a frame
Jumped ==
    IF is_jumping
    THEN LET v == dino_y_velocity + GRAVITY
             y == DINO_Y + v
         IN  IF y >= Tenths(HEIGHT - DINO_HEIGHT)
             THEN [y |-> Tenths(HEIGHT - DINO_HEIGHT), v |-> v, jumping |-> FALSE]
             ELSE [y |-> y, v |-> v, jumping |-> TRUE]
    ELSE [y |-> DINO_Y, v |-> dino_y_velocity, jumping |-> FALSE]

\* the obstacle appended when the list is empty or its last one is far enough
WithNewObstacle(obs, height) ==
    IF Len(obs) = 0 \/ obs[Len(obs)].x < WIDTH - 400
    THEN Append(obs, [x |-> WIDTH, y |-> HEIGHT - height, w |-> OBSTACLE_WIDTH,
                      h |-> height])
    ELSE obs

RECURSIVE MoveObstacles(_, _, _)
\* "for obstacle in obstacles" from index i on: the obstacle is moved, and
\* obstacles.pop(0) while the list is iterated shifts the ones behind it
MoveObstacles(obs, i, sc) ==
    IF i > Len(obs)
    THEN [obstacles |-> obs, score |-> sc]
    ELSE LET moved == [obs EXCEPT ![i].x = @ - OBSTACLE_SPEED] IN
         IF moved[i].x < -OBSTACLE_WIDTH
         THEN MoveObstacles(Tail(moved), i + 1, sc + 1)
         ELSE MoveObstacles(moved, i + 1, sc)

\* pygame.Rect.colliderect on rectangles with integer coordinates
colliderect(a, b) ==
    /\ a.x < b.x + b.w
    /\ b.x < a.x + a.w
    /\ a.y < b.y + b.h
    /\ b.y < a.y + a.h

\* the rest of a pass of the loop: the frame update, or the game over screen
UpdateFrame(height) ==
    /\ pc = "dino"
    /\ dino_pc = "update"
    /\ dino_pc' = IF running THEN "events" ELSE "quit"
    /\ reset_ran' = FALSE
    /\ IF ~game_over
       THEN LET j == Jumped
                m == MoveObstacles(WithNewObstacle(obstacles, height), 1, score)
                dino_rect == [x |-> DINO_X, y |-> j.y \div 10,
                              w |-> DINO_WIDTH, h |-> DINO_HEIGHT]
            IN  /\ DINO_Y' = j.y
                /\ dino_y_velocity' = j.v
                /\ is_jumping' = j.jumping
                /\ obstacles' = m.obstacles
                /\ score' = m.score
                /\ game_over' = \E k \in 1..Len(m.obstacles) :
                                    colliderect(dino_rect, m.obstacles[k])
       ELSE UNCHANGED <<DINO_Y, dino_y_velocity, is_jumping, obstacles, score,
                        game_over>>
    /\ UNCHANGED running
    /\ UNCHANGED <<coreVars, uiVars, logVars>>

NextDino ==
    \/ \E event \in DinoEvents : HandleEvent(event)
    \/ \E height \in ObstacleHeights : UpdateFrame(height)

SpecDino == InitDino /\ [][NextDino]_vars

----------------------------------------------------------------------------
\* Properties

\* the text carried by a returned value
ResultText(v) == IF v.t = "dict" THEN v.text ELSE v

Failed(a) == a.outcome \in {"ResourceExhausted", "Exception"}

InCall == pc \in {"bind", "invoke", "returned", "shown", "wait", "raised"}

\* C1: when the invocation on regions[0] succeeds, generate_content returns
\* that region's result, and regions[0] is the only region bound and the only
\* one invoked in the whole call.
C1_FirstRegionSuccess ==
    (attempt_number = 1 /\ Len(attempts) >= 1 /\ attempts[1].outcome = "ok") =>
        /\ pc \in {"returned", "shown"}
        /\ Len(attempts) = 1
        /\ binds = <<regions[1]>>
        /\ location = regions[1]
        /\ Len(invocations) = 1
        /\ invocations[1].region = regions[1]
        /\ ResultText(result) = attempts[1].response.text
        /\ ResultText(result) = Str(<<"analysis", "from", regions[1]>>)

C1_Witness ==
    /\ pc = "returned"
    /\ attempt_number = 1
    /\ attempts[1].outcome = "ok"
    /\ return_full_response

\* C2: when regions[0..k-1] each raise ResourceExhausted and regions[k]
\* succeeds, the returned value is the one produced by regions[k] and exactly
\* k+1 binds happened, on regions[0], ..., regions[k] in that order.
C2_ThrottledFailover ==
    (/\ attempt_number = 1
     /\ Len(attempts) >= 1
     /\ attempts[Len(attempts)].outcome = "ok"
     /\ \A j \in 1..(Len(attempts) - 1) : attempts[j].outcome = "ResourceExhausted") =>
        /\ binds = SubSeq(regions, 1, Len(attempts))
        /\ Len(invocations) = Len(attempts)
        /\ ResultText(result) = Str(<<"analysis", "from", regions[Len(attempts)]>>)
        /\ result = ReturnValue(return_full_response, attempts[Len(attempts)].response)

C2_Witness ==
    /\ pc = "returned"
    /\ attempt_number = 1
    /\ Len(attempts) = 3
    /\ attempts[1].outcome = "ResourceExhausted"
    /\ attempts[2].outcome = "ResourceExhausted"
    /\ attempts[3].outcome = "ok"

\* C3: an exception reaches the caller only after exactly 3 sweeps, that is
\* 3 x (number of regions) backend invocations, and the waits between the
\* sweeps never decrease.
C3_ThreeSweeps ==
    /\ \A i \in 1..(Len(delays) - 1) : delays[i + 1] >= delays[i]
    /\ pc = "raised" =>
          /\ attempt_number = 3
          /\ Len(invocations) = 3 * Len(regions)
          /\ Len(binds) = 3 * Len(regions)
          /\ Len(delays) = 2
          /\ \A j \in 1..Len(attempts) : Failed(attempts[j])

C3_Witness ==
    /\ pc = "raised"
    /\ Len(delays) = 2
    /\ Len(invocations) = 3 * Len(regions)

\* C4: once the retry budget is exhausted the caller receives the last
\* sweep's aggregated failure: its message contains the text of the last
\* region error and that error is its cause.
C4_CallerGetsAggregate ==
    pc = "raised" =>
        /\ caller_exc = sweep_exc
        /\ Contains(caller_exc.msg, last_error.msg)
        /\ caller_exc.cause = last_error

\* C5: within a sweep the regions are attempted one at a time in list order,
\* region k only once region k-1 has failed, whatever the kinds of the errors;
\* the sweep raises only after every region has been attempted and has failed.
C5_SequentialSweep ==
    InCall =>
        /\ Len(attempts) <= Len(regions)
        /\ \A j \in 1..Len(attempts) :
              /\ attempts[j].region = regions[j]
              /\ (j < Len(attempts) => Failed(attempts[j]))
        /\ (pc = "invoke" => idx = Len(attempts) + 1)
        /\ Len(binds) = (Len(regions) * (attempt_number - 1)) + Len(attempts)
                        + (IF pc = "invoke" THEN 1 ELSE 0)
        /\ (pc \in {"wait", "raised"} =>
              /\ Len(attempts) = Len(regions)
              /\ \A j \in 1..Len(attempts) : Failed(attempts[j]))

C5_Witness ==
    /\ pc = "wait"
    /\ attempts[1].outcome = "Exception"
    /\ attempts[2].outcome = "ResourceExhausted"
    /\ Len(attempts) = Len(regions)

\* the options the caller asked for: generation_config when passed, else the
\* default, with response_mime_type layered on
MergedOptions ==
    LayerMimeType(PopValue(kwargs, "generation_config", default_generation_config),
                  response_mime_type)

\* C6: every invocation of a call, also after a failover, is made with the
\* caller's merged options.
C6_SameMergedOptions ==
    \A i \in 1..Len(invocations) : invocations[i].generation_config = MergedOptions

C8_DistinctAndUnchanged ==
    norm_out # << >> =>
        \A i \in 1..2 :
            IF norm_in[i] \in ReasonMapKeys
            THEN /\ norm_out[i].t = "str"
                 /\ norm_out[i].s # << >>
                 /\ \A j \in 1..2 :
                       (norm_in[j] \in ReasonMapKeys /\ norm_in[j] # norm_in[i])
                           => norm_out[j] # norm_out[i]
            ELSE /\ norm_out[i].t = "str"
                 /\ (norm_in[i].t = "str" => norm_out[i] = norm_in[i])
                 /\ (norm_in[i].t # "str" => norm_out[i] = PyStr(norm_in[i]))

\* C8 amended: every table key has a non-empty description; two different
\* keys of the same kind (two enum members, or two numeric strings) have
\* different descriptions, while an enum member and a numeric string may
\* share one; a code outside the table comes back unchanged (a string as
\* itself, any other value in its string form).
C8_TotalNormalization ==
    norm_out # << >> =>
        \A i \in 1..2 :
            IF norm_in[i] \in ReasonMapKeys
            THEN /\ norm_out[i].t = "str"
                 /\ norm_out[i].s # << >>
                 /\ \A j \in 1..2 :
                       (/\ norm_in[j] \in ReasonMapKeys
                        /\ norm_in[j] # norm_in[i]
                        /\ norm_in[j].t = norm_in[i].t)
                           => norm_out[j] # norm_out[i]
            ELSE /\ norm_out[i].t = "str"
                 /\ (norm_in[i].t = "str" => norm_out[i] = norm_in[i])
                 /\ (norm_in[i].t # "str" => norm_out[i] = PyStr(norm_in[i]))

C8_Witness ==
    /\ norm_out # << >>
    /\ norm_in = <<Enum("MAX_TOKENS"), Enum("BLOCKLIST")>>

\* C9: after a successful generation is_truncated is true exactly when the
\* normalized finish description of that generation does not contain
\* "completed normally", for both values of return_full_response.
C9_TruncatedIffNotCompleted ==
    pc = "shown" =>
        (is_truncated <=> ~Contains(Lower(finish_reason_desc.s), CompletedNormally))

C11_InvocationUsesOwnRegion ==
    \A c \in Callers :
        conc_invocations[c] # NoInvocation =>
            conc_invocations[c].location = conc_invocations[c].region

\* C12: the retry wrapper starts another attempt only after a sweep in which
\* every region failed; an error raised before the region loop reaches the
\* caller after a single attempt.
C12_OnlyExhaustionRetried ==
    /\ pc = "wait" =>
          /\ Len(attempts) = Len(regions)
          /\ \A j \in 1..Len(attempts) : Failed(attempts[j])
    /\ (pc = "raised" /\ caller_exc.cause = SinkError) => attempt_number = 1

\* the region that the i-th bind of a call lands on when every sweep starts
\* at regions[0] and walks the list in order
SweepRegion(i) == regions[((i - 1) % Len(regions)) + 1]

\* C13: the region list has at least 5 entries and the client's list is the
\* constructed one for good; the i-th bind of a call is on the region at
\* position (i-1) mod (number of regions), so every sweep starts at regions[0]
\* and follows the constructed order, wherever earlier sweeps or calls ended.
C13_FixedOrder ==
    /\ Len(AllRegions) >= 5
    /\ pc \notin {"new", "ctor_raised"} => self_regions = regions
    /\ \A i \in 1..Len(binds) : binds[i] = SweepRegion(i)
    /\ pc = "invoke" => location = SweepRegion(Len(binds))

C13_Witness ==
    /\ pc = "invoke"
    /\ attempt_number = 2
    /\ Len(binds) = Len(regions) + 1
    /\ location = regions[1]

\* the arguments of the i-th invocation of a call, from the caller's keyword
\* arguments and mime type alone
InvocationArgs(i) ==
    [region |-> SweepRegion(i),
     location |-> SweepRegion(i),
     generation_config |->
        LayerMimeType(IF SweepRegion(i) = regions[1]
                      THEN PopValue(kwargs, "generation_config", default_generation_config)
                      ELSE default_generation_config,
                      response_mime_type),
     safety_settings |-> safety_settings,
     kwargs |-> PopRest(kwargs, "generation_config")]

\* C14: a successful call made with return_full_response=False returns the
\* response text itself; made with return_full_response=True it returns a
\* record with that text, finish_reason, finish_reason_raw and metadata; the
\* regions bound and the invocation arguments do not depend on the flag.
C14_FlagSelectsShape ==
    /\ pc \in {"returned", "shown"} =>
          LET response == attempts[Len(attempts)].response
              md == extract_response_metadata(response)
              raw == IF md.candidates # << >> THEN md.candidates[1].finish_reason
                     ELSE PyNone
          IN  /\ ~return_full_response => result = response.text
              /\ return_full_response =>
                    /\ result.t = "dict"
                    /\ DOMAIN result =
                          {"t", "text", "finish_reason", "finish_reason_raw", "metadata"}
                    /\ result.text = response.text
                    /\ result.finish_reason = get_finish_reason_description(raw)
                    /\ result.finish_reason_raw = raw
                    /\ result.metadata = md
    /\ \A i \in 1..Len(invocations) :
          /\ invocations[i] = InvocationArgs(i)
          /\ "return_full_response" \notin DOMAIN invocations[i].kwargs

C14_Witness ==
    /\ pc = "returned"
    /\ return_full_response
    /\ Len(attempts) = 2
    /\ kwargs # EmptyDict
    /\ result.text = Str(<<"analysis", "from", regions[2]>>)

\* C15: for every finish code a provider response delivers, the description
\* computed for a successful call is an entry of the static table and not the
\* code's own string form.
C15_EveryCodeDescribed ==
    (pc \in {"returned", "shown"} /\ finish_reason_raw.t = "enum") =>
        /\ finish_reason_desc \in {reason_map(k) : k \in ReasonMapKeys}
        /\ finish_reason_desc # PyStr(finish_reason_raw)

\* C16: when a region succeeds in sweep 2 or 3 after the earlier sweeps failed
\* on every region, the caller gets that region's result and no exception,
\* one wait happened per failed sweep, and nothing was bound after the
\* successful region.
C16_LaterSweepSucceeds ==
    (pc \in {"returned", "shown"} /\ attempt_number >= 2) =>
        /\ caller_exc = NoExc
        /\ attempt_number <= StopAttempts
        /\ sweep_exc # NoExc
        /\ attempts[Len(attempts)].outcome = "ok"
        /\ ResultText(result) = Str(<<"analysis", "from", regions[Len(attempts)]>>)
        /\ Len(delays) = attempt_number - 1
        /\ Len(binds) = (Len(regions) * (attempt_number - 1)) + Len(attempts)
        /\ binds[Len(binds)] = regions[Len(attempts)]

C16_Witness ==
    /\ pc = "returned"
    /\ attempt_number = 3
    /\ Len(attempts) = 2
    /\ attempts[1].outcome = "ResourceExhausted"

\* C17: a backoff wait happens only after a sweep that failed on every region
\* and before the next sweep: at most 2 waits per call, each of 2 to 10 time
\* units, each preceded by a full sweep of binds, none after a successful
\* sweep and none after the third sweep.
C17_WaitsOnlyBetweenSweeps ==
    /\ Len(delays) <= StopAttempts - 1
    /\ \A i \in 1..Len(delays) : delays[i] >= WaitMin /\ delays[i] <= WaitMax
    /\ Len(delays) * Len(regions) <= Len(binds)
    /\ pc = "wait" =>
          /\ Len(attempts) = Len(regions)
          /\ \A j \in 1..Len(attempts) : Failed(attempts[j])
    /\ pc \in {"returned", "shown", "raised"} => Len(delays) = attempt_number - 1

\* C18: the aggregated error of a sweep that failed on every region has the
\* error of the last region of the list as its cause and in its message, and
\* not the error of an earlier region, whatever the kinds of the errors.
C18_WrapsLastRegionError ==
    pc \in {"wait", "raised"} =>
        LET n == Len(regions)
            last == RegionError(attempts[n].outcome, regions[n])
        IN  /\ Len(attempts) = n
            /\ sweep_exc.cause = last
            /\ sweep_exc.msg = <<"All", "regions", "failed.", "Last", "error:">> \o last.msg
            /\ \A j \in 1..(n - 1) :
                  sweep_exc.cause # RegionError(attempts[j].outcome, regions[j])

C18_Witness ==
    /\ pc = "wait"
    /\ attempts[1].outcome = "Exception"
    /\ attempts[Len(regions)].outcome = "ResourceExhausted"
    /\ sweep_exc.cause.type = "ResourceExhausted"

\* C19: a region that failed with ResourceExhausted is logged as an API call
\* with status "exhausted", one that failed with any other exception is
\* logged as an error; after either the loop stands at the next region; the
\* caller never receives a ResourceExhausted exception.
C19_FailureClassified ==
    /\ (InCall /\ app_logger) =>
          \A j \in 1..Len(attempts) :
              Failed(attempts[j]) =>
                  sink[j + 1] =
                      IF attempts[j].outcome = "ResourceExhausted"
                      THEN [method |-> "log_api_call",
                            message |-> "gemini.generate_content",
                            status |-> "exhausted", region |-> regions[j]]
                      ELSE [method |-> "log_error",
                            message |-> "Gemini API error with region",
                            status |-> "", region |-> regions[j]]
    /\ (pc = "bind" /\ Len(attempts) >= 1) =>
          /\ Failed(attempts[Len(attempts)])
          /\ idx = Len(attempts) + 1
    /\ caller_exc.type # "ResourceExhausted"
    /\ sweep_exc.type # "ResourceExhausted"

C19_Witness ==
    /\ pc = "raised"
    /\ app_logger
    /\ attempts[1].outcome = "Exception"
    /\ attempts[Len(regions)].outcome = "ResourceExhausted"
    /\ sink[Len(regions) + 1].status = "exhausted"

\* C20 as stated: a finished call has made exactly one sink call per attempted
\* region and one for the terminal outcome.
C20_OnePerRegionOnePerOutcome ==
    (app_logger /\ pc \in {"returned", "raised"}) => sink_calls = Len(binds) + 1

\* C20 amended: with a sink attached, each sweep makes one call-start call,
\* then one call per failed region in list order, then either two calls for
\* the region that succeeded (API call with status "success", performance) or
\* one error call for the aggregated failure, which comes after the calls of
\* all failed regions; a call that fails for good has made these calls in each
\* of its 3 sweeps; without a sink no call is made.
C20_SinkCallsPerSweep ==
    /\ ~app_logger => (sink = << >> /\ sink_calls = 0)
    /\ (app_logger /\ InCall) =>
          /\ sink[1] = [method |-> "log_api_call", message |-> "gemini.generate_content",
                        status |-> "", region |-> ""]
          /\ Len(sink) = 1 + Len(attempts)
                         + (IF pc \in {"returned", "shown", "wait", "raised"} THEN 1 ELSE 0)
          /\ \A j \in 1..Len(attempts) : sink[j + 1].region = regions[j]
          /\ pc \in {"returned", "shown"} =>
                /\ sink[Len(sink) - 1].method = "log_api_call"
                /\ sink[Len(sink) - 1].status = "success"
                /\ sink[Len(sink)].method = "log_performance"
          /\ pc \in {"wait", "raised"} =>
                /\ Len(sink) = Len(regions) + 2
                /\ sink[Len(sink)] = [method |-> "log_error",
                                      message |-> "All Gemini API regions failed",
                                      status |-> "", region |-> ""]
          /\ pc = "raised" => sink_calls = StopAttempts * (Len(regions) + 2)

C20_Witness ==
    /\ pc = "raised"
    /\ app_logger
    /\ sink_calls = StopAttempts * (Len(regions) + 2)
    /\ sink[2].method = "log_error"
    /\ sink[Len(sink)].message = "All Gemini API regions failed"

\* from the first attempt of a call until the caller has the outcome
CallRunning == pc \in {"start", "bind", "invoke", "wait", "returned"}

\* C21: once constructed, the client's project_id, region list, safety
\* settings and default generation options keep their construction values
\* through every call, successful or failed, and no step of a call changes the
\* caller's keyword-argument mapping.
C21_ClientUnchanged ==
    /\ [](pc \notin {"new", "ctor_raised"} =>
             /\ project_id = ResolveProjectId(ctor_arg, GCP_PROJECT)
             /\ self_regions = regions
             /\ self_safety_settings = safety_settings
             /\ self_default_generation_config = default_generation_config)
    /\ [][CallRunning => kwargs' = kwargs]_vars

C21_Witness ==
    /\ pc = "raised"
    /\ kwargs # EmptyDict
    /\ response_mime_type # ""
    /\ self_default_generation_config = default_generation_config

\* C22: over any sequence of script runs and button presses in one session,
\* at most one GeminiRegionClient instance is ever constructed.
C22_ClientConstructedOnce == instances <= 1

\* C24: the entries stored under an app's version-comparison key were all
\* written by the Version Comparison tab, and no entry written by that tab is
\* stored under the key of an Analysis sub-tab.
C24_VersionKeyUnique ==
    /\ \A app \in Apps :
          VersionKey(app) \in DOMAIN ss_history =>
              \A j \in 1..Len(ss_history[VersionKey(app)]) :
                  ss_history[VersionKey(app)][j].written_by = "version"
    /\ \A app \in Apps, i \in Prompts :
          AnalysisKey(app, i) \in DOMAIN ss_history =>
              \A j \in 1..Len(ss_history[AnalysisKey(app, i)]) :
                  ss_history[AnalysisKey(app, i)][j].written_by = "analysis"

\* a script run that handled a generation button
Generated(event) == event.button \in {"analyze", "analyze_versions"}

\* C25: a script run whose generation raised leaves analysis_history as it
\* was (no key created, no entry added) and shows the error; a run whose
\* generation returned adds exactly one entry under the key of its button.
C25_HistoryOnlyOnSuccess ==
    [][(reruns' = reruns + 1 /\ Generated(ui_event')) =>
          IF ui_event'.outcome = "raised"
          THEN /\ ss_history' = ss_history
               /\ ui_shown' = "error"
               /\ ss_log'[Len(ss_log') - (IF ui_event'.button = "analyze" THEN 1 ELSE 0)]
                     = LogLine("error", "Error during analysis")
          ELSE LET key == AnalysisKey(ui_event'.app, ui_event'.prompt)
                   before == IF key \in DOMAIN ss_history THEN Len(ss_history[key]) ELSE 0
               IN  /\ key \in DOMAIN ss_history'
                   /\ Len(ss_history'[key]) = before + 1
                   /\ ui_shown' = "analysis"]_vars

C25_Witness ==
    /\ ui_event.button = "analyze"
    /\ ui_event.outcome = "raised"
    /\ ui_shown = "error"
    /\ ss_history # NoHistory

\* C26: a script run that handled Refresh for one app and prompt empties the
\* history of that key and leaves the keys of the history, the entries of every
\* other key and the scraped results as they were, and only appends to the log.
C26_RefreshClearsOneKey ==
    [][(reruns' = reruns + 1 /\ ui_event'.button = "refresh") =>
          LET key == AnalysisKey(ui_event'.app, ui_event'.prompt) IN
          /\ DOMAIN ss_history' = DOMAIN ss_history
          /\ ss_history'[key] = << >>
          /\ \A k \in (DOMAIN ss_history) \ {key} : ss_history'[k] = ss_history[k]
          /\ ss_results' = ss_results
          /\ Len(ss_log') > Len(ss_log)
          /\ SubSeq(ss_log', 1, Len(ss_log)) = ss_log]_vars

C26_Witness ==
    /\ ui_event.button = "refresh"
    /\ ss_history[AnalysisKey(ui_event.app, ui_event.prompt)] = << >>
    /\ \E k \in DOMAIN ss_history : ss_history[k] # << >>
    /\ ss_results # {}

\* C23: a call never makes more than 3 x (number of regions) backend
\* invocations, and every attempt that has started leads to the call returning
\* or raising, given that each invocation returns or raises.
C23_CallTerminates ==
    /\ [](Len(invocations) <= StopAttempts * Len(regions))
    /\ (pc = "start") ~> (pc \in {"returned", "raised"})

C23_Witness ==
    /\ pc = "raised"
    /\ attempt_number = StopAttempts
    /\ Len(invocations) = StopAttempts * Len(regions)
    /\ attempts[1].outcome = "ResourceExhausted"

NoSensitiveWord(name) ==
    \A w \in SensitiveWords : ~Contains(LowerName(name), <<w>>)

LastOf(seq) == seq[Len(seq)]

\* C27: no api_call entry stores a parameter whose lower-cased name contains
\* key, token, secret or password, and the entry stored by a log_api_call
\* holds every other parameter of that call with its value.
C27_SensitiveParamsDropped ==
    /\ \A i \in 1..Len(log_categories.api_call) :
          LET e == log_categories.api_call[i] IN
          "params" \in DOMAIN e.details =>
              \A n \in DOMAIN e.details.params : NoSensitiveWord(n)
    /\ last_call.method = "log_api_call" =>
          LET e == LastOf(log_categories.api_call) IN
          \A n \in DOMAIN last_call.params :
              NoSensitiveWord(n) =>
                  /\ "params" \in DOMAIN e.details
                  /\ n \in DOMAIN e.details.params
                  /\ e.details.params[n] = last_call.params[n]

\* a call whose parameters hold an upper-case sensitive name and a harmless one
C27_Witness ==
    /\ last_call.method = "log_api_call"
    /\ <<"API_", "KEY">> \in DOMAIN last_call.params
    /\ DOMAIN LastOf(log_categories.api_call).details.params = {<<"prompt_length">>}

CategoryTotal ==
    Len(log_categories.user_action) + Len(log_categories.api_call)
    + Len(log_categories.error) + Len(log_categories.performance)

\* C28: the flat log has as many lines as the four category lists have entries,
\* every entry of a category list carries that category, and after clear_logs
\* the flat log and the four lists are empty.
C28_LogsConsistent ==
    /\ Len(log_flat) = CategoryTotal
    /\ \A c \in Categories : \A i \in 1..Len(log_categories[c]) :
          log_categories[c][i].category = c
    /\ last_call.method = "clear_logs" =>
          log_flat = << >> /\ log_categories = EmptyCategories

\* clear_logs called on a log that held lines of two categories
C28_Witness ==
    /\ last_call.method = "clear_logs"
    /\ last_call.dropped >= 2
    /\ log_flat = << >>

Added(c) == Len(log_categories'[c]) - Len(log_categories[c])

C30_ResetRestoresStart ==
    /\ [](reset_ran =>
            /\ score = 0
            /\ obstacles = << >>
            /\ DINO_Y = Tenths(HEIGHT - 100)
            /\ is_jumping = FALSE
            /\ dino_y_velocity = 0)
    /\ [][reset_ran' => game_over]_vars

====
